---- MODULE Spec2Model ----
(***************************************************************************)
(* Model of the live-chatter WebSocket hub: pkg/client_manager.go (the     *)
(* ClientManager command loop and its registry), pkg/client.go (the        *)
(* per-connection inbound loop Read/HandleMessage and outbound loop Write)  *)
(* and server.WebSocket (connection admission).                            *)
(*                                                                         *)
(* Goroutines: one hub (ClientManager.Start), and per connection one       *)
(* inbound loop (Client.Read) and one outbound loop (Client.Write).        *)
(* The hub channels Register, Unregister and Broadcast are unbuffered, so  *)
(* a send on them is a rendezvous with the hub's select: a hub action      *)
(* receives the command and runs its whole handler.  The inbound loop's    *)
(* join_room and leave_room handlers write the hub's Rooms map directly,   *)
(* without synchronisation; they are modelled one statement per step so    *)
(* that the outcomes of that data race are states of the model.            *)
(***************************************************************************)
EXTENDS Integers, Sequences, FiniteSets, TLC

\* ---------------------------------------------------------------- bounds
NumConns == 3          \* connection objects ever created
QueueCap == 3          \* capacity of Client.Send (256 in server.WebSocket)
MaxEvents == 4         \* events of the environment over a run: connections made,
                       \* frames received, transport failures, frames written

Conns == 1..NumConns   \* connection c is the c-th one server.WebSocket creates
Users == {"alice", "bob"}     \* the usernames that log in during a run
\* the usernames of the connections a running server has admitted, in order
UserSeq == <<"alice", "bob", "carol">>
RoomIDs == {"general"}
NoPanic == "none"

\* ---------------------------------------------------------------- state
VARIABLES
  User,           \* Client.User.Username ("" before the connection exists)
  Clients,        \* ClientManager.Clients: set of connections
  UserClients,    \* ClientManager.UserClients: username -> connection
  Rooms,          \* ClientManager.Rooms: room id -> set of connections
  ClientRooms,    \* Client.Rooms of every connection
  Send,           \* Client.Send: the buffered content of the channel
  SendClosed,     \* Client.Send has been closed
  SocketClosed,   \* Client.Socket has been closed by the server
  rd,             \* position of Client.Read / HandleMessage
  rdRoom,         \* msg.RoomID of the join_room/leave_room being handled
  rdOut,          \* BroadcastMessage the inbound loop is sending to the hub
  rdNext,         \* where SendMessage returns to after its close(c.Send)
  wr,             \* position of Client.Write
  panic,          \* the Go runtime panic that ended the process, if any
  server,         \* runServer: "serving", "shutdown" once srv.Shutdown has closed
                  \* the listener, "exited" once main has returned
  closeCalls,     \* history: close(c.Send) statements executed, per connection
  disconnects,    \* history: user_disconnected broadcasts made, per connection
  lastDispatch,   \* history: the dispatch the hub handled last
  frameIO,        \* history: the calls that have read or written frames on the
                  \* connection's socket, as "goroutine.method"
  arrivals,       \* history: the connections blocked in a send on Unregister or
                  \* Broadcast, in the order in which they arrived
  emitted,        \* history: the notifications each connection's inbound loop has
                  \* sent to Broadcast, in the order of the sends
  wasMember,      \* history: the connection was a member of msg.RoomID when its
                  \* inbound loop read the leave_room it handled last
  events          \* events of the environment so far

vars == <<User, Clients, UserClients, Rooms, ClientRooms, Send, SendClosed,
          SocketClosed, rd, rdRoom, rdOut, rdNext, wr, panic, server, closeCalls,
          disconnects, lastDispatch, frameIO, arrivals, emitted, wasMember, events>>

\* ---------------------------------------------------------------- messages
\* pkg.Message, without ID and Timestamp (both are the wall clock).
Message(type, content, username, room, recipient, data) ==
  [Type |-> type, Content |-> content, Username |-> username, RoomID |-> room,
   RecipientUsername |-> recipient, Data |-> data]

\* pkg.BroadcastMessage
BroadcastMessage(message, room, target, exclude, mtype) ==
  [Message |-> message, RoomID |-> room, TargetUsername |-> target,
   ExcludeUser |-> exclude, MessageType |-> mtype]

NoBroadcast == [MessageType |-> "none"]

\* ---------------------------------------------------------------- transport
\* c.Socket.ReadMessage is called by Client.Read alone, c.Socket.WriteMessage
\* by Client.Write alone.
ReadsFrames == "Read.ReadMessage"
WritesFrames == "Write.WriteMessage"

\* ---------------------------------------------------------------- hub state
\* The part of the state a hub handler reads and writes, as one record.
Hub ==
  [User |-> User, Clients |-> Clients, UserClients |-> UserClients, Rooms |-> Rooms,
   ClientRooms |-> ClientRooms, Send |-> Send, SendClosed |-> SendClosed,
   SocketClosed |-> SocketClosed, panic |-> panic, closeCalls |-> closeCalls,
   disconnects |-> disconnects, frameIO |-> frameIO]

\* client.User.Username
Username(S, c) == S.User[c]

Panic(S, what) == [S EXCEPT !.panic = what]

\* delete(m, k) on a map
MapDelete(m, k) == [x \in (DOMAIN m) \ {k} |-> m[x]]
\* m[k] = v on a map
MapPut(m, k, v) == [x \in (DOMAIN m) \cup {k} |-> IF x = k THEN v ELSE m[x]]

\* close(client.Send): closing a closed channel panics.
CloseSend(S, c) ==
  LET counted == [S EXCEPT !.closeCalls[c] = @ + 1]
  IN IF S.SendClosed[c]
       THEN Panic(counted, "hub: close of closed channel")
       ELSE [counted EXCEPT !.SendClosed[c] = TRUE]

\* the loop "for roomID := range client.Rooms" of unregisterClient and
\* cleanupClient: leave every room of client.Rooms, pruning emptied rooms.
RemoveFromRooms(S, c) ==
  LET touched == S.ClientRooms[c] \cap DOMAIN S.Rooms
      left(r) == IF r \in touched THEN S.Rooms[r] \ {c} ELSE S.Rooms[r]
      kept == {r \in DOMAIN S.Rooms : ~(r \in touched /\ left(r) = {})}
  IN [S EXCEPT !.Rooms = [r \in kept |-> left(r)]]

\* cleanupClient without its "delete(manager.UserClients, ...)"
cleanupClientKeepsUser(S, c) ==
  LET S1 == CloseSend(S, c)
  IN IF S1.panic # NoPanic THEN S1
     ELSE RemoveFromRooms([S1 EXCEPT !.Clients = @ \ {c}], c)

cleanupClient(S, c) ==
  LET S1 == CloseSend(S, c)
  IN IF S1.panic # NoPanic THEN S1
     ELSE RemoveFromRooms(
            [S1 EXCEPT !.Clients = @ \ {c},
                       !.UserClients = MapDelete(@, Username(S, c))], c)

\* a delivery that puts the message at the head of the queue
DeliverAtHead(S, c, m) ==
  IF S.SendClosed[c] THEN Panic(S, "hub: send on closed channel")
  ELSE IF Len(S.Send[c]) < QueueCap
         THEN [S EXCEPT !.Send[c] = <<m>> \o @]
         ELSE cleanupClient(S, c)

\* select { case client.Send <- data: default: cleanupClient(client) }
\* A send on a closed channel panics, also inside a select with a default.
Deliver(S, c, m) ==
  IF S.SendClosed[c] THEN Panic(S, "hub: send on closed channel")
  ELSE IF Len(S.Send[c]) < QueueCap
         THEN [S EXCEPT !.Send[c] = Append(@, m)]
         ELSE cleanupClient(S, c)

\* A range loop over a set of connections, in the iteration order ord (Go
\* leaves the order of a map range unspecified); a panic ends the loop.
RECURSIVE DeliverEach(_, _, _, _)
DeliverEach(S, targets, ord, m) ==
  IF ord = <<>> \/ S.panic # NoPanic THEN S
  ELSE DeliverEach(IF Head(ord) \in targets THEN Deliver(S, Head(ord), m) ELSE S,
                   targets, Tail(ord), m)

broadcastToAll(S, m, excludeUser, ord) ==
  DeliverEach(S, {c \in S.Clients : Username(S, c) # excludeUser}, ord, m)

\* broadcastToRoom that treats a room id the room map does not hold like the
\* empty room id
broadcastToRoomOrAll(S, m, roomID, excludeUser, ord) ==
  IF roomID = "" \/ roomID \notin DOMAIN S.Rooms
    THEN broadcastToAll(S, m, excludeUser, ord)
    ELSE DeliverEach(S, {c \in S.Rooms[roomID] : Username(S, c) # excludeUser}, ord, m)

broadcastToRoom(S, m, roomID, excludeUser, ord) ==
  IF roomID = "" THEN broadcastToAll(S, m, excludeUser, ord)
  ELSE IF roomID \notin DOMAIN S.Rooms THEN S
  ELSE DeliverEach(S, {c \in S.Rooms[roomID] : Username(S, c) # excludeUser}, ord, m)

\* Client.SendMessage: select { case c.Send <- data: default: close(c.Send) },
\* run to its end (the hub calls it inside a handler).
SendMessage(S, c, m) ==
  IF S.SendClosed[c] THEN Panic(S, "hub: send on closed channel")
  ELSE IF Len(S.Send[c]) < QueueCap
         THEN [S EXCEPT !.Send[c] = Append(@, m)]
         ELSE CloseSend(S, c)

\* sendPrivateMessage that fans the message out to every registered connection
\* instead of looking the target's connection up
sendPrivateMessageToAll(S, m, targetUsername) ==
  LET n == Cardinality(S.Clients)
      ord == CHOOSE o \in [1..n -> S.Clients] : \A i, j \in 1..n : o[i] = o[j] => i = j
  IN DeliverEach(S, S.Clients, ord, m)

sendPrivateMessage(S, m, targetUsername) ==
  IF targetUsername \notin DOMAIN S.UserClients
    THEN IF m.Username \in DOMAIN S.UserClients
           THEN SendMessage(S, S.UserClients[m.Username],
                  Message("error", "User " \o targetUsername \o " is not online",
                          "System", "", "", {}))
           ELSE S
    ELSE Deliver(S, S.UserClients[targetUsername], m)

handleBroadcast(S, b, ord) ==
  CASE b.MessageType = "broadcast_all" ->
         broadcastToAll(S, b.Message, b.ExcludeUser, ord)
    [] b.MessageType = "broadcast_room" ->
         broadcastToRoom(S, b.Message, b.RoomID, b.ExcludeUser, ord)
    [] b.MessageType = "private_message" ->
         sendPrivateMessage(S, b.Message, b.TargetUsername)
    [] OTHER -> S

\* unregisterClient without its delete(manager.UserClients, client.Username)
unregisterClientKeepsUser(S, c, ord) ==
  IF c \in S.Clients
    THEN LET S1 == CloseSend(S, c)
             S2 == RemoveFromRooms([S1 EXCEPT !.Clients = @ \ {c}], c)
             S3 == [S2 EXCEPT !.disconnects[c] = @ + 1]
         IN IF S1.panic # NoPanic THEN S1
            ELSE broadcastToAll(S3,
                   Message("user_disconnected", "left the chat", Username(S, c), "", "", {}),
                   Username(S, c), ord)
    ELSE S

\* unregisterClient without its "if _, ok := manager.Clients[client]; ok" guard
unregisterClientUnguarded(S, c, ord) ==
  LET S1 == CloseSend(S, c)
      S2 == RemoveFromRooms(
              [S1 EXCEPT !.Clients = @ \ {c},
                         !.UserClients = MapDelete(@, Username(S, c))], c)
      S3 == [S2 EXCEPT !.disconnects[c] = @ + 1]
  IN IF S1.panic # NoPanic THEN S1
     ELSE broadcastToAll(S3,
            Message("user_disconnected", "left the chat", Username(S, c), "", "", {}),
            Username(S, c), ord)

unregisterClient(S, c, ord) ==
  IF c \in S.Clients
    THEN LET S1 == CloseSend(S, c)
             S2 == RemoveFromRooms(
                     [S1 EXCEPT !.Clients = @ \ {c},
                                !.UserClients = MapDelete(@, Username(S, c))], c)
             S3 == [S2 EXCEPT !.disconnects[c] = @ + 1]
         IN IF S1.panic # NoPanic THEN S1
            ELSE broadcastToAll(S3,
                   Message("user_disconnected", "left the chat", Username(S, c), "", "", {}),
                   Username(S, c), ord)
    ELSE S

\* forceDisconnectClient that writes a close frame on the socket itself, from
\* the hub, before it closes the socket
forceDisconnectClientWritesClose(S, c, ord) ==
  unregisterClient([S EXCEPT !.SocketClosed[c] = TRUE,
                             !.frameIO[c] = @ \cup {"Start.WriteMessage"}], c, ord)

forceDisconnectClient(S, c, ord) ==
  unregisterClient([S EXCEPT !.SocketClosed[c] = TRUE], c, ord)

sendOnlineUsersList(S, c) ==
  SendMessage(S, c,
    Message("online_users", "", "System", "", "",
            (DOMAIN S.UserClients) \ {Username(S, c)}))

\* registerClient that announces the new connection before it evicts the
\* username's previous one
registerClientAnnouncesFirst(S, c, ord) ==
  LET username == Username(S, c)
      S0 == broadcastToAll(S,
              Message("user_connected", "joined the chat", username, "", "", {}),
              username, ord)
      S1 == IF username \in DOMAIN S0.UserClients
              THEN forceDisconnectClient(S0, S0.UserClients[username], ord)
              ELSE S0
      S2 == [S1 EXCEPT !.Clients = @ \cup {c},
                       !.UserClients = MapPut(@, username, c)]
      S3 == SendMessage(S2, c,
              Message("system", "Welcome", "System", "", "", {}))
  IN IF S0.panic # NoPanic THEN S0
     ELSE IF S1.panic # NoPanic THEN S1
     ELSE IF S3.panic # NoPanic THEN S3
     ELSE sendOnlineUsersList(S3, c)

\* registerClient without the eviction of the username's previous connection
registerClientKeepsOld(S, c, ord) ==
  LET username == Username(S, c)
      S2 == [S EXCEPT !.Clients = @ \cup {c},
                      !.UserClients = MapPut(@, username, c)]
      S3 == SendMessage(S2, c,
              Message("system", "Welcome", "System", "", "", {}))
      S4 == broadcastToAll(S3,
              Message("user_connected", "joined the chat", username, "", "", {}),
              username, ord)
  IN IF S3.panic # NoPanic THEN S3
     ELSE IF S4.panic # NoPanic THEN S4
     ELSE sendOnlineUsersList(S4, c)

registerClient(S, c, ord) ==
  LET username == Username(S, c)
      S1 == IF username \in DOMAIN S.UserClients
              THEN forceDisconnectClient(S, S.UserClients[username], ord)
              ELSE S
      S2 == [S1 EXCEPT !.Clients = @ \cup {c},
                       !.UserClients = MapPut(@, username, c)]
      S3 == SendMessage(S2, c,
              Message("system", "Welcome", "System", "", "", {}))
      S4 == broadcastToAll(S3,
              Message("user_connected", "joined the chat", username, "", "", {}),
              username, ord)
  IN IF S1.panic # NoPanic THEN S1
     ELSE IF S3.panic # NoPanic THEN S3
     ELSE IF S4.panic # NoPanic THEN S4
     ELSE sendOnlineUsersList(S4, c)

GetOnlineUsers == DOMAIN UserClients

IsUserOnline(username) == username \in DOMAIN UserClients

\* ---------------------------------------------------------------- Init
EmptyMap == [x \in {} |-> {}]

Init ==
  /\ User = [c \in Conns |-> ""]
  /\ Clients = {}
  /\ UserClients = EmptyMap
  /\ Rooms = EmptyMap
  /\ ClientRooms = [c \in Conns |-> {}]
  /\ Send = [c \in Conns |-> <<>>]
  /\ SendClosed = [c \in Conns |-> FALSE]
  /\ SocketClosed = [c \in Conns |-> FALSE]
  /\ rd = [c \in Conns |-> "off"]
  /\ rdRoom = [c \in Conns |-> ""]
  /\ rdOut = [c \in Conns |-> NoBroadcast]
  /\ rdNext = [c \in Conns |-> ""]
  /\ wr = [c \in Conns |-> "off"]
  /\ panic = NoPanic
  /\ server = "serving"
  /\ closeCalls = [c \in Conns |-> 0]
  /\ disconnects = [c \in Conns |-> 0]
  /\ lastDispatch = NoBroadcast
  /\ frameIO = [c \in Conns |-> {}]
  /\ arrivals = <<>>
  /\ wasMember = [c \in Conns |-> FALSE]
  /\ emitted = [c \in Conns |-> <<>>]
  /\ events = 0

\* the process runs: no goroutine has panicked and main has not returned
Running == panic = NoPanic /\ server # "exited"

\* ---------------------------------------------------------------- hub loop
\* The connections a hub handler can range over: those of Clients and of the
\* rooms, and the orders in which a range loop can visit them.
Ranged == Clients \cup UNION {Rooms[r] : r \in DOMAIN Rooms}
Orders ==
  {o \in [1..Cardinality(Ranged) -> Ranged] :
     \A i, j \in 1..Cardinality(Ranged) : o[i] = o[j] => i = j}

\* the positions at which a goroutine is blocked in a send on a hub channel
BroadcastPcs == {"c_bcast", "j_bcast", "l_bcast", "p_bcast"}
HubSendPcs == BroadcastPcs \cup {"unreg"}

\* the blocked senders after a step that leaves the inbound loops at the
\* positions pcs: those that are still blocked, in their order, and then the
\* one that has just arrived
Arrivals(pcs) ==
  LET blocked(d) == pcs[d] \in HubSendPcs
      stay == SelectSeq(arrivals, blocked)
      new == {d \in Conns : blocked(d) /\ \A i \in 1..Len(arrivals) : arrivals[i] # d}
  IN IF new = {} THEN stay ELSE Append(stay, CHOOSE d \in new : TRUE)

\* the notifications sent to Broadcast after a step that leaves the inbound
\* loops at the positions pcs with the dispatches outs: a loop that has just
\* reached its send has sent one more
Emitted(pcs, outs) ==
  [c \in Conns |->
     IF pcs[c] \in BroadcastPcs /\ rd[c] \notin BroadcastPcs
       THEN Append(emitted[c], outs[c].Message)
       ELSE emitted[c]]

\* the hub handler's result becomes the state
HubResult(S) ==
  /\ Clients' = S.Clients
  /\ UserClients' = S.UserClients
  /\ Rooms' = S.Rooms
  /\ ClientRooms' = S.ClientRooms
  /\ Send' = S.Send
  /\ SendClosed' = S.SendClosed
  /\ SocketClosed' = S.SocketClosed
  /\ panic' = S.panic
  /\ closeCalls' = S.closeCalls
  /\ disconnects' = S.disconnects
  /\ frameIO' = S.frameIO

\* server.WebSocket creates the connection and sends it on Register; Start
\* receives it and runs registerClient; WebSocket then starts Read and Write.
Register(c, u) ==
  /\ Running
  /\ server = "serving"
  /\ rd[c] = "off"
  /\ \A d \in Conns : d < c => rd[d] # "off"
  /\ events < MaxEvents
  /\ events' = events + 1
  /\ User' = [User EXCEPT ![c] = u]
  /\ \E ord \in Orders :
        HubResult(registerClient([Hub EXCEPT !.User[c] = u], c, <<c>> \o ord))
  /\ rd' = [rd EXCEPT ![c] = "idle"]
  /\ wr' = [wr EXCEPT ![c] = "run"]
  /\ UNCHANGED <<rdRoom, rdOut, rdNext, lastDispatch>>
  /\ arrivals' = Arrivals(rd')
  /\ emitted' = Emitted(rd', rdOut')
  /\ UNCHANGED server
  /\ UNCHANGED wasMember

\* Client.Close is blocked in "clientsManager.Unregister <- c"; Start receives
\* it and runs unregisterClient; Read returns.
Unregister(c) ==
  /\ Running
  /\ rd[c] = "unreg"
  /\ \E ord \in Orders : HubResult(unregisterClient(Hub, c, ord))
  /\ rd' = [rd EXCEPT ![c] = "done"]
  /\ UNCHANGED <<User, rdRoom, rdOut, rdNext, wr, lastDispatch, events>>
  /\ arrivals' = Arrivals(rd')
  /\ emitted' = Emitted(rd', rdOut')
  /\ UNCHANGED server
  /\ UNCHANGED wasMember

\* A handler of the inbound loop is blocked in "clientsManager.Broadcast <- b";
\* Start receives b and runs handleBroadcast; the handler goes on.
Broadcast(c) ==
  /\ Running
  /\ rd[c] \in BroadcastPcs
  /\ \E ord \in Orders : HubResult(handleBroadcast(Hub, rdOut[c], ord))
  /\ rd' = [rd EXCEPT ![c] = IF rd[c] = "p_bcast" THEN "p_echo" ELSE "idle"]
  /\ rdOut' = [rdOut EXCEPT ![c] = IF rd[c] = "p_bcast" THEN @ ELSE NoBroadcast]
  /\ lastDispatch' = rdOut[c]
  /\ UNCHANGED <<User, rdRoom, rdNext, wr, events>>
  /\ arrivals' = Arrivals(rd')
  /\ emitted' = Emitted(rd', rdOut')
  /\ UNCHANGED server
  /\ UNCHANGED wasMember

\* ---------------------------------------------------------------- inbound loop
\* Client.SendMessage called by the inbound loop: the select statement.  Its
\* default branch, close(c.Send), is the later step SendMessageClose.
ClientSendMessage(c, m, next) ==
  IF SendClosed[c]
    THEN /\ panic' = "read: send on closed channel"
         /\ UNCHANGED <<Send, rd, rdNext>>
    ELSE IF Len(Send[c]) < QueueCap
      THEN /\ Send' = [Send EXCEPT ![c] = Append(@, m)]
           /\ rd' = [rd EXCEPT ![c] = next]
           /\ UNCHANGED <<panic, rdNext>>
      ELSE /\ rd' = [rd EXCEPT ![c] = "sm_close"]
           /\ rdNext' = [rdNext EXCEPT ![c] = next]
           /\ UNCHANGED <<panic, Send>>

SendMessageClose(c) ==
  /\ Running
  /\ rd[c] = "sm_close"
  /\ closeCalls' = [closeCalls EXCEPT ![c] = @ + 1]
  /\ IF SendClosed[c]
       THEN /\ panic' = "read: close of closed channel"
            /\ UNCHANGED <<SendClosed, rd, rdNext>>
       ELSE /\ SendClosed' = [SendClosed EXCEPT ![c] = TRUE]
            /\ rd' = [rd EXCEPT ![c] = rdNext[c]]
            /\ rdNext' = [rdNext EXCEPT ![c] = ""]
            /\ UNCHANGED panic
  /\ UNCHANGED <<User, Clients, UserClients, Rooms, ClientRooms, Send, SocketClosed,
                 rdRoom, rdOut, wr, disconnects, lastDispatch, events>>
  /\ arrivals' = Arrivals(rd')
  /\ emitted' = Emitted(rd', rdOut')
  /\ UNCHANGED frameIO
  /\ UNCHANGED server
  /\ UNCHANGED wasMember

\* ReadMessage returns a frame: the socket is open and the frame budget allows.
CanRead(c) ==
  /\ Running
  /\ rd[c] = "idle"
  /\ ~SocketClosed[c]
  /\ events < MaxEvents

\* SendError(errorMsg)
ErrorMessage(errorMsg) == Message("error", errorMsg, "System", "", "", {})

\* the frames HandleMessage and the handlers answer with SendError alone
UnknownType == "Unknown message type"
Malformed ==
  {"Invalid message format",               \* the frame does not parse
   "Message content cannot be empty",      \* chat_message, private_message
   "Room ID cannot be empty",              \* join_room, leave_room
   "Recipient username cannot be empty"}   \* private_message

\* a frame with an unknown type, one that does not parse, or one that lacks
\* a required field: "c.SendError(errorMsg); return"
RecvInvalid(c, errorMsg) ==
  /\ CanRead(c)
  /\ events' = events + 1
  /\ ClientSendMessage(c, ErrorMessage(errorMsg), "idle")
  /\ UNCHANGED <<User, Clients, UserClients, Rooms, ClientRooms, SendClosed, SocketClosed,
                 rdRoom, rdOut, wr, closeCalls, disconnects, lastDispatch>>
  /\ arrivals' = Arrivals(rd')
  /\ emitted' = Emitted(rd', rdOut')
  /\ frameIO' = [frameIO EXCEPT ![c] = @ \cup {ReadsFrames}]
  /\ UNCHANGED server
  /\ UNCHANGED wasMember

\* handlePing
RecvPing(c) ==
  /\ CanRead(c)
  /\ events' = events + 1
  /\ ClientSendMessage(c, Message("pong", "", "System", "", "", {}), "idle")
  /\ UNCHANGED <<User, Clients, UserClients, Rooms, ClientRooms, SendClosed, SocketClosed,
                 rdRoom, rdOut, wr, closeCalls, disconnects, lastDispatch>>
  /\ arrivals' = Arrivals(rd')
  /\ emitted' = Emitted(rd', rdOut')
  /\ frameIO' = [frameIO EXCEPT ![c] = @ \cup {ReadsFrames}]
  /\ UNCHANGED server
  /\ UNCHANGED wasMember

\* a handler reaches "clientsManager.Broadcast <- b"
SubmitBroadcast(c, b, pc) ==
  /\ rd' = [rd EXCEPT ![c] = pc]
  /\ rdOut' = [rdOut EXCEPT ![c] = b]

\* handleChatMessage with content
RecvChat(c, room) ==
  /\ CanRead(c)
  /\ events' = events + 1
  /\ SubmitBroadcast(c,
        BroadcastMessage(Message("chat_message", "hi", User[c], room, "", {}),
                         room, "", "", "broadcast_room"), "c_bcast")
  /\ UNCHANGED <<User, Clients, UserClients, Rooms, ClientRooms, Send, SendClosed,
                 SocketClosed, rdRoom, rdNext, wr, panic, closeCalls, disconnects, lastDispatch>>
  /\ arrivals' = Arrivals(rd')
  /\ emitted' = Emitted(rd', rdOut')
  /\ frameIO' = [frameIO EXCEPT ![c] = @ \cup {ReadsFrames}]
  /\ UNCHANGED server
  /\ UNCHANGED wasMember

\* handleTyping
RecvTyping(c, room) ==
  /\ CanRead(c)
  /\ events' = events + 1
  /\ SubmitBroadcast(c,
        BroadcastMessage(Message("typing", "start", User[c], room, "", {}),
                         room, "", User[c], "broadcast_room"), "c_bcast")
  /\ UNCHANGED <<User, Clients, UserClients, Rooms, ClientRooms, Send, SendClosed,
                 SocketClosed, rdRoom, rdNext, wr, panic, closeCalls, disconnects, lastDispatch>>
  /\ arrivals' = Arrivals(rd')
  /\ emitted' = Emitted(rd', rdOut')
  /\ frameIO' = [frameIO EXCEPT ![c] = @ \cup {ReadsFrames}]
  /\ UNCHANGED server
  /\ UNCHANGED wasMember

\* handlePrivateMessage with recipient and content, up to the Broadcast send
RecvPrivate(c, target) ==
  /\ CanRead(c)
  /\ events' = events + 1
  /\ SubmitBroadcast(c,
        BroadcastMessage(Message("private_message", "hey", User[c], "", target, {}),
                         "", target, "", "private_message"), "p_bcast")
  /\ UNCHANGED <<User, Clients, UserClients, Rooms, ClientRooms, Send, SendClosed,
                 SocketClosed, rdRoom, rdNext, wr, panic, closeCalls, disconnects, lastDispatch>>
  /\ arrivals' = Arrivals(rd')
  /\ emitted' = Emitted(rd', rdOut')
  /\ frameIO' = [frameIO EXCEPT ![c] = @ \cup {ReadsFrames}]
  /\ UNCHANGED server
  /\ UNCHANGED wasMember

\* handlePrivateMessage: "c.SendMessage(privateMsg)", the copy to the sender
PrivateEcho(c) ==
  /\ Running
  /\ rd[c] = "p_echo"
  /\ ClientSendMessage(c, rdOut[c].Message, "idle")
  /\ rdOut' = [rdOut EXCEPT ![c] = NoBroadcast]
  /\ UNCHANGED <<User, Clients, UserClients, Rooms, ClientRooms, SendClosed, SocketClosed,
                 rdRoom, wr, closeCalls, disconnects, lastDispatch, events>>
  /\ arrivals' = Arrivals(rd')
  /\ emitted' = Emitted(rd', rdOut')
  /\ UNCHANGED frameIO
  /\ UNCHANGED server
  /\ UNCHANGED wasMember

\* handleJoinRoom with a room id, lines 138-142, one statement per step.
\* "if clientsManager.Rooms[msg.RoomID] == nil"
RecvJoin(c, room) ==
  /\ CanRead(c)
  /\ events' = events + 1
  /\ rdRoom' = [rdRoom EXCEPT ![c] = room]
  /\ rd' = [rd EXCEPT ![c] = IF room \in DOMAIN Rooms THEN "j_add" ELSE "j_make"]
  /\ UNCHANGED <<User, Clients, UserClients, Rooms, ClientRooms, Send, SendClosed,
                 SocketClosed, rdOut, rdNext, wr, panic, closeCalls, disconnects, lastDispatch>>
  /\ arrivals' = Arrivals(rd')
  /\ emitted' = Emitted(rd', rdOut')
  /\ frameIO' = [frameIO EXCEPT ![c] = @ \cup {ReadsFrames}]
  /\ UNCHANGED server
  /\ UNCHANGED wasMember

\* "clientsManager.Rooms[msg.RoomID] = make(map[*Client]bool)"
JoinMake(c) ==
  /\ Running
  /\ rd[c] = "j_make"
  /\ Rooms' = MapPut(Rooms, rdRoom[c], {})
  /\ rd' = [rd EXCEPT ![c] = "j_add"]
  /\ UNCHANGED <<User, Clients, UserClients, ClientRooms, Send, SendClosed, SocketClosed,
                 rdRoom, rdOut, rdNext, wr, panic, closeCalls, disconnects, lastDispatch, events>>
  /\ arrivals' = Arrivals(rd')
  /\ emitted' = Emitted(rd', rdOut')
  /\ UNCHANGED frameIO
  /\ UNCHANGED server
  /\ UNCHANGED wasMember

\* "clientsManager.Rooms[msg.RoomID][c] = true": an assignment to an entry of
\* a nil map panics.
JoinAdd(c) ==
  /\ Running
  /\ rd[c] = "j_add"
  /\ IF rdRoom[c] \in DOMAIN Rooms
       THEN /\ Rooms' = [Rooms EXCEPT ![rdRoom[c]] = @ \cup {c}]
            /\ rd' = [rd EXCEPT ![c] = "j_own"]
            /\ UNCHANGED panic
       ELSE /\ panic' = "read: assignment to entry in nil map"
            /\ UNCHANGED <<Rooms, rd>>
  /\ UNCHANGED <<User, Clients, UserClients, ClientRooms, Send, SendClosed, SocketClosed,
                 rdRoom, rdOut, rdNext, wr, closeCalls, disconnects, lastDispatch, events>>
  /\ arrivals' = Arrivals(rd')
  /\ emitted' = Emitted(rd', rdOut')
  /\ UNCHANGED frameIO
  /\ UNCHANGED server
  /\ UNCHANGED wasMember

\* "c.Rooms[msg.RoomID] = true"
JoinOwn(c) ==
  /\ Running
  /\ rd[c] = "j_own"
  /\ ClientRooms' = [ClientRooms EXCEPT ![c] = @ \cup {rdRoom[c]}]
  /\ rd' = [rd EXCEPT ![c] = "j_reply"]
  /\ UNCHANGED <<User, Clients, UserClients, Rooms, Send, SendClosed, SocketClosed,
                 rdRoom, rdOut, rdNext, wr, panic, closeCalls, disconnects, lastDispatch, events>>
  /\ arrivals' = Arrivals(rd')
  /\ emitted' = Emitted(rd', rdOut')
  /\ UNCHANGED frameIO
  /\ UNCHANGED server
  /\ UNCHANGED wasMember

\* "c.SendMessage(confirmMsg)", then the handler builds the user_joined
\* dispatch and sends it on Broadcast
JoinReply(c) ==
  /\ Running
  /\ rd[c] = "j_reply"
  /\ ClientSendMessage(c,
        Message("room_joined", "Successfully joined room", "System", rdRoom[c], "", {}),
        "j_bcast")
  /\ rdOut' = [rdOut EXCEPT ![c] =
        BroadcastMessage(
          Message("user_joined", "joined the room", User[c], rdRoom[c], "", {}),
          rdRoom[c], "", User[c], "broadcast_room")]
  /\ UNCHANGED <<User, Clients, UserClients, Rooms, ClientRooms, SendClosed, SocketClosed,
                 rdRoom, wr, closeCalls, disconnects, lastDispatch, events>>
  /\ arrivals' = Arrivals(rd')
  /\ emitted' = Emitted(rd', rdOut')
  /\ UNCHANGED frameIO
  /\ UNCHANGED server
  /\ UNCHANGED wasMember

\* handleLeaveRoom with a room id, lines 187-193, one statement per step.
\* "if clientsManager.Rooms[msg.RoomID] != nil { delete(Rooms[msg.RoomID], c)"
RecvLeave(c, room) ==
  /\ CanRead(c)
  /\ events' = events + 1
  /\ rdRoom' = [rdRoom EXCEPT ![c] = room]
  /\ IF room \in DOMAIN Rooms
       THEN /\ Rooms' = [Rooms EXCEPT ![room] = @ \ {c}]
            /\ rd' = [rd EXCEPT ![c] = "l_len"]
       ELSE /\ rd' = [rd EXCEPT ![c] = "l_own"]
            /\ UNCHANGED Rooms
  /\ UNCHANGED <<User, Clients, UserClients, ClientRooms, Send, SendClosed,
                 SocketClosed, rdOut, rdNext, wr, panic, closeCalls, disconnects, lastDispatch>>
  /\ arrivals' = Arrivals(rd')
  /\ emitted' = Emitted(rd', rdOut')
  /\ frameIO' = [frameIO EXCEPT ![c] = @ \cup {ReadsFrames}]
  /\ UNCHANGED server
  /\ wasMember' = [wasMember EXCEPT ![c] =
        (room \in DOMAIN Rooms /\ c \in Rooms[room]) \/ room \in ClientRooms[c]]

\* "if len(clientsManager.Rooms[msg.RoomID]) == 0" (the length of a nil map is 0)
LeaveLen(c) ==
  /\ Running
  /\ rd[c] = "l_len"
  /\ rd' = [rd EXCEPT ![c] =
        IF rdRoom[c] \notin DOMAIN Rooms \/ Rooms[rdRoom[c]] = {}
          THEN "l_prune" ELSE "l_own"]
  /\ UNCHANGED <<User, Clients, UserClients, Rooms, ClientRooms, Send, SendClosed,
                 SocketClosed, rdRoom, rdOut, rdNext, wr, panic, closeCalls,
                 disconnects, lastDispatch, events>>
  /\ arrivals' = Arrivals(rd')
  /\ emitted' = Emitted(rd', rdOut')
  /\ UNCHANGED frameIO
  /\ UNCHANGED server
  /\ UNCHANGED wasMember

\* "delete(clientsManager.Rooms, msg.RoomID)"
LeavePrune(c) ==
  /\ Running
  /\ rd[c] = "l_prune"
  /\ Rooms' = MapDelete(Rooms, rdRoom[c])
  /\ rd' = [rd EXCEPT ![c] = "l_own"]
  /\ UNCHANGED <<User, Clients, UserClients, ClientRooms, Send, SendClosed, SocketClosed,
                 rdRoom, rdOut, rdNext, wr, panic, closeCalls, disconnects, lastDispatch, events>>
  /\ arrivals' = Arrivals(rd')
  /\ emitted' = Emitted(rd', rdOut')
  /\ UNCHANGED frameIO
  /\ UNCHANGED server
  /\ UNCHANGED wasMember

\* "delete(c.Rooms, msg.RoomID)"
LeaveOwn(c) ==
  /\ Running
  /\ rd[c] = "l_own"
  /\ ClientRooms' = [ClientRooms EXCEPT ![c] = @ \ {rdRoom[c]}]
  /\ rd' = [rd EXCEPT ![c] = "l_reply"]
  /\ UNCHANGED <<User, Clients, UserClients, Rooms, Send, SendClosed, SocketClosed,
                 rdRoom, rdOut, rdNext, wr, panic, closeCalls, disconnects, lastDispatch, events>>
  /\ arrivals' = Arrivals(rd')
  /\ emitted' = Emitted(rd', rdOut')
  /\ UNCHANGED frameIO
  /\ UNCHANGED server
  /\ UNCHANGED wasMember

\* "c.SendMessage(confirmMsg)"
LeaveReply(c) ==
  /\ Running
  /\ rd[c] = "l_reply"
  /\ ClientSendMessage(c,
        Message("room_left", "Successfully left room", "System", rdRoom[c], "", {}),
        "l_notify")
  /\ UNCHANGED <<User, Clients, UserClients, Rooms, ClientRooms, SendClosed, SocketClosed,
                 rdRoom, rdOut, wr, closeCalls, disconnects, lastDispatch, events>>
  /\ arrivals' = Arrivals(rd')
  /\ emitted' = Emitted(rd', rdOut')
  /\ UNCHANGED frameIO
  /\ UNCHANGED server
  /\ UNCHANGED wasMember

\* "if Rooms[msg.RoomID] != nil && len(Rooms[msg.RoomID]) > 0": the user_left
\* dispatch is sent on Broadcast
LeaveNotify(c) ==
  /\ Running
  /\ rd[c] = "l_notify"
  /\ IF rdRoom[c] \in DOMAIN Rooms /\ Rooms[rdRoom[c]] # {}
       THEN SubmitBroadcast(c,
              BroadcastMessage(
                Message("user_left", "left the room", User[c], rdRoom[c], "", {}),
                rdRoom[c], "", User[c], "broadcast_room"), "l_bcast")
       ELSE /\ rd' = [rd EXCEPT ![c] = "idle"]
            /\ UNCHANGED rdOut
  /\ UNCHANGED <<User, Clients, UserClients, Rooms, ClientRooms, Send, SendClosed,
                 SocketClosed, rdRoom, rdNext, wr, panic, closeCalls, disconnects, lastDispatch,
                 events>>
  /\ arrivals' = Arrivals(rd')
  /\ emitted' = Emitted(rd', rdOut')
  /\ UNCHANGED frameIO
  /\ UNCHANGED server
  /\ UNCHANGED wasMember

\* ReadMessage fails (the peer went away, the read deadline expired, or the
\* socket was closed by the server): Read breaks out of its loop and the
\* deferred c.Close sends c on Unregister.
ReadFail(c) ==
  /\ Running
  /\ rd[c] = "idle"
  /\ events < MaxEvents
  /\ events' = events + 1
  /\ rd' = [rd EXCEPT ![c] = "unreg"]
  /\ UNCHANGED <<User, Clients, UserClients, Rooms, ClientRooms, Send, SendClosed,
                 SocketClosed, rdRoom, rdOut, rdNext, wr, panic, closeCalls,
                 disconnects, lastDispatch>>
  /\ arrivals' = Arrivals(rd')
  /\ emitted' = Emitted(rd', rdOut')
  /\ frameIO' = [frameIO EXCEPT ![c] = @ \cup {ReadsFrames}]
  /\ UNCHANGED server
  /\ UNCHANGED wasMember

\* ReadMessage fails because the socket was closed on the server's side, by the
\* deferred c.Socket.Close of Write or by forceDisconnectClient: Read breaks
\* out of its loop and the deferred c.Close sends c on Unregister.
ReadClosed(c) ==
  /\ Running
  /\ rd[c] = "idle"
  /\ SocketClosed[c]
  /\ rd' = [rd EXCEPT ![c] = "unreg"]
  /\ UNCHANGED <<User, Clients, UserClients, Rooms, ClientRooms, Send, SendClosed,
                 SocketClosed, rdRoom, rdOut, rdNext, wr, panic, closeCalls,
                 disconnects, lastDispatch, events>>
  /\ arrivals' = Arrivals(rd')
  /\ emitted' = Emitted(rd', rdOut')
  /\ frameIO' = [frameIO EXCEPT ![c] = @ \cup {ReadsFrames}]
  /\ UNCHANGED server
  /\ UNCHANGED wasMember

\* ---------------------------------------------------------------- outbound loop
\* Client.Write receives a message from c.Send and writes it to the socket.
WriteMessage(c) ==
  /\ Running
  /\ wr[c] = "run"
  /\ Send[c] # <<>>
  /\ ~SocketClosed[c]
  /\ events < MaxEvents
  /\ events' = events + 1
  /\ Send' = [Send EXCEPT ![c] = Tail(@)]
  /\ UNCHANGED <<User, Clients, UserClients, Rooms, ClientRooms, SendClosed, SocketClosed,
                 rd, rdRoom, rdOut, rdNext, wr, panic, closeCalls, disconnects, lastDispatch>>
  /\ arrivals' = Arrivals(rd')
  /\ emitted' = Emitted(rd', rdOut')
  /\ frameIO' = [frameIO EXCEPT ![c] = @ \cup {WritesFrames}]
  /\ UNCHANGED server
  /\ UNCHANGED wasMember

\* Client.Write receives from the closed and drained c.Send ("!ok"): it writes
\* the close frame and returns; the deferred function closes the socket.
WriteClosed(c) ==
  /\ Running
  /\ wr[c] = "run"
  /\ Send[c] = <<>>
  /\ SendClosed[c]
  /\ wr' = [wr EXCEPT ![c] = "done"]
  /\ SocketClosed' = [SocketClosed EXCEPT ![c] = TRUE]
  /\ UNCHANGED <<User, Clients, UserClients, Rooms, ClientRooms, Send, SendClosed,
                 rd, rdRoom, rdOut, rdNext, panic, closeCalls, disconnects, lastDispatch, events>>
  /\ arrivals' = Arrivals(rd')
  /\ emitted' = Emitted(rd', rdOut')
  /\ frameIO' = [frameIO EXCEPT ![c] = @ \cup {WritesFrames}]
  /\ UNCHANGED server
  /\ UNCHANGED wasMember

\* A write to the socket fails: of a received message (taken is TRUE) or of
\* the keep-alive ping.  Write returns; the deferred function closes the socket.
WriteFail(c) ==
  /\ Running
  /\ wr[c] = "run"
  /\ events < MaxEvents
  /\ events' = events + 1
  /\ \E taken \in BOOLEAN :
        /\ taken => Send[c] # <<>>
        /\ Send' = [Send EXCEPT ![c] = IF taken THEN Tail(@) ELSE @]
  /\ wr' = [wr EXCEPT ![c] = "done"]
  /\ SocketClosed' = [SocketClosed EXCEPT ![c] = TRUE]
  /\ UNCHANGED <<User, Clients, UserClients, Rooms, ClientRooms, SendClosed,
                 rd, rdRoom, rdOut, rdNext, panic, closeCalls, disconnects, lastDispatch>>
  /\ arrivals' = Arrivals(rd')
  /\ emitted' = Emitted(rd', rdOut')
  /\ frameIO' = [frameIO EXCEPT ![c] = @ \cup {WritesFrames}]
  /\ UNCHANGED server
  /\ UNCHANGED wasMember

\* ---------------------------------------------------------------- data race
\* Positions at which a goroutine is about to write, or to read, the Rooms map.
RoomsWritePcs == {"j_make", "j_add", "l_prune"}
RoomsReadPcs == {"l_len", "l_notify"}

\* the hub has a command to receive whose handler reads or writes Rooms
HubTouchesRooms ==
  \E d \in Conns :
    \/ rd[d] = "unreg" /\ d \in Clients /\ ClientRooms[d] # {}
    \/ rd[d] \in BroadcastPcs /\ rdOut[d].MessageType = "broadcast_room"
         /\ rdOut[d].RoomID # ""

\* Two goroutines access the Rooms map at once, one of them writing: the Go
\* runtime may detect it and end the process ("fatal error: concurrent map
\* writes"); when it does not, the accesses take effect one after the other.
ConcurrentMapFault ==
  /\ Running
  /\ \E c \in Conns :
        /\ rd[c] \in RoomsWritePcs
        /\ \/ \E d \in Conns \ {c} : rd[d] \in RoomsWritePcs \cup RoomsReadPcs
           \/ HubTouchesRooms
  /\ panic' = "fatal error: concurrent map writes"
  /\ UNCHANGED <<User, Clients, UserClients, Rooms, ClientRooms, Send, SendClosed,
                 SocketClosed, rd, rdRoom, rdOut, rdNext, wr, closeCalls,
                 disconnects, lastDispatch, events>>
  /\ arrivals' = Arrivals(rd')
  /\ emitted' = Emitted(rd', rdOut')
  /\ UNCHANGED frameIO
  /\ UNCHANGED server
  /\ UNCHANGED wasMember

\* ---------------------------------------------------------------- specification
Next ==
  \/ \E c \in Conns, u \in Users : Register(c, u)
  \/ \E c \in Conns : Unregister(c)
  \/ \E c \in Conns : Broadcast(c)
  \/ \E c \in Conns, errorMsg \in Malformed \cup {UnknownType} : RecvInvalid(c, errorMsg)
  \/ \E c \in Conns : RecvPing(c)
  \/ \E c \in Conns, room \in RoomIDs \cup {""} : RecvChat(c, room)
  \/ \E c \in Conns, room \in RoomIDs \cup {""} : RecvTyping(c, room)
  \/ \E c \in Conns, target \in Users : RecvPrivate(c, target)
  \/ \E c \in Conns : PrivateEcho(c)
  \/ \E c \in Conns, room \in RoomIDs : RecvJoin(c, room)
  \/ \E c \in Conns : JoinMake(c)
  \/ \E c \in Conns : JoinAdd(c)
  \/ \E c \in Conns : JoinOwn(c)
  \/ \E c \in Conns : JoinReply(c)
  \/ \E c \in Conns, room \in RoomIDs : RecvLeave(c, room)
  \/ \E c \in Conns : LeaveLen(c)
  \/ \E c \in Conns : LeavePrune(c)
  \/ \E c \in Conns : LeaveOwn(c)
  \/ \E c \in Conns : LeaveReply(c)
  \/ \E c \in Conns : LeaveNotify(c)
  \/ \E c \in Conns : SendMessageClose(c)
  \/ \E c \in Conns : ReadFail(c)
  \/ \E c \in Conns : ReadClosed(c)
  \/ \E c \in Conns : WriteMessage(c)
  \/ \E c \in Conns : WriteClosed(c)
  \/ \E c \in Conns : WriteFail(c)
  \/ ConcurrentMapFault

Spec == Init /\ [][Next]_vars

\* ---------------------------------------------------------------- shutdown
\* runServer receives SIGINT or SIGTERM and calls srv.Shutdown, which closes
\* the listener: no request reaches server.WebSocket any more.  Shutdown
\* leaves hijacked connections (the WebSockets) alone, and nothing is sent to
\* the hub.
Shutdown ==
  /\ Running
  /\ server = "serving"
  /\ server' = "shutdown"
  /\ UNCHANGED <<User, Clients, UserClients, Rooms, ClientRooms, Send, SendClosed,
                 SocketClosed, rd, rdRoom, rdOut, rdNext, wr, panic, closeCalls,
                 disconnects, lastDispatch, frameIO, arrivals, emitted, wasMember, events>>

\* srv.Shutdown returns, then runServer and main: the process ends with
\* every goroutine where it is.
Exit ==
  /\ Running
  /\ server = "shutdown"
  /\ server' = "exited"
  /\ UNCHANGED <<User, Clients, UserClients, Rooms, ClientRooms, Send, SendClosed,
                 SocketClosed, rd, rdRoom, rdOut, rdNext, wr, panic, closeCalls,
                 disconnects, lastDispatch, frameIO, arrivals, emitted, wasMember, events>>

NextShutdown == Next \/ Shutdown \/ Exit

SpecShutdown == Init /\ [][NextShutdown]_vars

\* ---------------------------------------------------------------- a running server
\* The server some time after its start: the first n connections have been
\* admitted under different usernames and have joined rooms; every outbound
\* queue has been drained by its Write loop, or is full of answers to pings
\* that the Write loop has not written yet; every inbound loop is waiting in
\* ReadMessage.  The admissions are the events counted.
Admitted == {n \in 0..NumConns : n <= Len(UserSeq)}
Backlog == [i \in 1..QueueCap |-> Message("pong", "", "System", "", "", {})]

InitRunning ==
  \E n \in Admitted :
    \E joined \in [1..n -> SUBSET RoomIDs], stalled \in SUBSET (1..n) :
      /\ User = [c \in Conns |-> IF c <= n THEN UserSeq[c] ELSE ""]
      /\ Clients = 1..n
      /\ UserClients = [u \in {UserSeq[c] : c \in 1..n} |->
                          CHOOSE c \in 1..n : UserSeq[c] = u]
      /\ Rooms = [r \in {x \in RoomIDs : \E c \in 1..n : x \in joined[c]} |->
                    {c \in 1..n : r \in joined[c]}]
      /\ ClientRooms = [c \in Conns |-> IF c <= n THEN joined[c] ELSE {}]
      /\ Send = [c \in Conns |-> IF c \in stalled THEN Backlog ELSE <<>>]
      /\ SendClosed = [c \in Conns |-> FALSE]
      /\ SocketClosed = [c \in Conns |-> FALSE]
      /\ rd = [c \in Conns |-> IF c <= n THEN "idle" ELSE "off"]
      /\ rdRoom = [c \in Conns |-> ""]
      /\ rdOut = [c \in Conns |-> NoBroadcast]
      /\ rdNext = [c \in Conns |-> ""]
      /\ wr = [c \in Conns |-> IF c <= n THEN "run" ELSE "off"]
      /\ panic = NoPanic
      /\ server = "serving"
      /\ closeCalls = [c \in Conns |-> 0]
      /\ disconnects = [c \in Conns |-> 0]
      /\ lastDispatch = NoBroadcast
      /\ frameIO = [c \in Conns |-> IF c <= n THEN {ReadsFrames, WritesFrames} ELSE {}]
      /\ arrivals = <<>>
      /\ wasMember = [c \in Conns |-> FALSE]
      /\ emitted = [c \in Conns |-> <<>>]
      /\ events = n

SpecRunning == InitRunning /\ [][Next]_vars

\* ---------------------------------------------------------------- fair scheduling
\* The steps an inbound loop takes on its own, once a frame has been read:
\* they wait for nothing but the scheduler.
InboundStep(c) ==
  \/ PrivateEcho(c)
  \/ JoinMake(c) \/ JoinAdd(c) \/ JoinOwn(c) \/ JoinReply(c)
  \/ LeaveLen(c) \/ LeavePrune(c) \/ LeaveOwn(c) \/ LeaveReply(c) \/ LeaveNotify(c)
  \/ SendMessageClose(c)
  \/ ReadClosed(c)

\* The Go scheduler runs every runnable goroutine, and the select of Start
\* receives from every channel that stays ready: a command that waits on
\* Unregister or Broadcast is received, an inbound loop that can go on goes
\* on, and an outbound loop receives from its closed and drained queue.  What
\* the peers and the network do (frames, failures, writes that complete) is
\* not subject to fairness.
Fairness ==
  \A c \in Conns :
    /\ WF_vars(Unregister(c))
    /\ WF_vars(Broadcast(c))
    /\ WF_vars(InboundStep(c))
    /\ WF_vars(WriteClosed(c))

SpecFair == Init /\ [][Next]_vars /\ Fairness

\* ---------------------------------------------------------------- claims
InRoom(c, r) == r \in DOMAIN Rooms /\ c \in Rooms[r]

\* C1: at every point between hub steps, at most one connection of a username
\* is in the live-connection set Clients (a register step that adds a
\* connection removes the username's previous one in the same step).
C1_OneConnectionPerUsername ==
  \A c, d \in Clients : User[c] = User[d] => c = d

\* a duplicate login has happened: d is registered under the username of c,
\* and c was evicted by forceDisconnectClient (its socket closed by the hub)
C1_DuplicateLoginEvicted ==
  \E c, d \in Conns :
    /\ c # d /\ User[c] = User[d]
    /\ d \in Clients /\ c \notin Clients
    /\ User[d] \in DOMAIN UserClients /\ UserClients[User[d]] = d
    /\ SocketClosed[c] /\ wr[c] = "run"

\* positions inside the statements of handleJoinRoom and handleLeaveRoom that
\* change the membership (lines 138-142 and 187-193)
MembershipPcs == {"j_make", "j_add", "j_own", "l_len", "l_prune", "l_own"}

\* C2: for every registered connection C and room R, C is in Rooms[R] iff R is
\* in C.Rooms, whenever no inbound loop is inside the membership statements
\* of a join or a leave.
C2_MembershipMirrored ==
  (panic = NoPanic /\ \A c \in Conns : rd[c] \notin MembershipPcs)
    => \A c \in Clients, r \in RoomIDs : InRoom(c, r) <=> r \in ClientRooms[c]

\* C3: close(c.Send) is executed at most once for every connection.
C3_ClosedAtMostOnce ==
  \A c \in Conns : closeCalls[c] <= 1

\* C4: a connection whose outbound queue is closed is in no part of the
\* registry: not in Clients, not a value of UserClients, in no room.
C4_ClosedOnlyAfterRemoval ==
  \A c \in Conns :
    SendClosed[c] =>
      /\ c \notin Clients
      /\ \A u \in DOMAIN UserClients : UserClients[u] # c
      /\ \A r \in DOMAIN Rooms : c \notin Rooms[r]

\* C5: no send is attempted on a closed outbound queue (in Go the attempt is
\* the panic "send on closed channel"), by the hub or by an inbound loop.
C5_NoSendOnClosedQueue ==
  panic \notin {"hub: send on closed channel", "read: send on closed channel"}

\* C6: the room map holds no room with zero members, in every state.
C6_NoEmptyRoom ==
  \A r \in DOMAIN Rooms : Rooms[r] # {}

\* C7: the hub loop never crashes: no hub handler panics on a send on a
\* closed queue or on closing a closed queue.
C7_HubNeverPanics ==
  panic \notin {"hub: send on closed channel", "hub: close of closed channel"}

\* the dispatch b is delivered by broadcastToAll, and excludes nobody registered
AllMode(b) ==
  /\ \/ b.MessageType = "broadcast_all"
     \/ b.MessageType = "broadcast_room" /\ b.RoomID = ""
  /\ \A d \in Clients : User[d] # b.ExcludeUser

\* of the registered connections, exactly k has a full outbound queue
OnlyFull(k) ==
  /\ k \in Clients
  /\ \A d \in Clients : Len(Send[d]) = QueueCap <=> d = k

\* C8: when exactly one of N >= 2 registered connections, k, has a full
\* outbound queue, the hub step of an all-mode dispatch enqueues the
\* notification on each of the other N-1, removes only k from the registry and
\* leaves the others registered with their room memberships unchanged.
C8_BroadcastEvictsOnlyFull ==
  [][\A c, k \in Conns :
       (Broadcast(c) /\ AllMode(rdOut[c]) /\ OnlyFull(k) /\ Cardinality(Clients) >= 2)
         => /\ Clients' = Clients \ {k}
            /\ UserClients' = MapDelete(UserClients, User[k])
            /\ \A d \in Clients \ {k} :
                 /\ Send'[d] = Append(Send[d], rdOut[c].Message)
                 /\ ~SendClosed'[d]
                 /\ ClientRooms'[d] = ClientRooms[d]
                 /\ \A r \in RoomIDs :
                      InRoom(d, r) <=> (r \in DOMAIN Rooms' /\ d \in Rooms'[r])]_vars

\* what a teardown leaves: the registry, and the queues of all connections
Teardown(S) == <<S.Clients, S.UserClients, S.Rooms, S.SendClosed, S.Send>>

\* C9: for a registered connection k whose open outbound queue is full (a hub
\* delivery to k takes the default branch and runs cleanupClient), the
\* teardown the hub performs leaves the registry and the queues of the
\* remaining connections as unregisterClient(k) would, user_disconnected
\* notifications included.
C9_FullQueueTeardownAsUnregister ==
  \A k \in Clients :
    (~SendClosed[k] /\ Len(Send[k]) = QueueCap)
      => \A ord \in Orders :
           Teardown(cleanupClient(Hub, k)) = Teardown(unregisterClient(Hub, k, ord))

\* C10: the hub step of an unregister request for a connection that is not in
\* Clients changes nothing (registry, room sets, queues; no panic, no
\* user_disconnected broadcast), and user_disconnected is broadcast at most once
\* for every connection.
C10_UnregisterAbsentIsNoOp ==
  /\ [][\A c \in Conns :
          (Unregister(c) /\ c \notin Clients)
            => UNCHANGED <<Clients, UserClients, Rooms, ClientRooms, Send,
                           SendClosed, SocketClosed, panic, closeCalls,
                           disconnects>>]_vars
  /\ [](\A c \in Conns : disconnects[c] <= 1)

\* the unregister request of a connection was processed after a duplicate
\* login had already unregistered it (its socket was closed by the hub, and
\* user_disconnected was broadcast for it once)
C10_UnregisteredWhenAbsent ==
  /\ panic = NoPanic
  /\ \E c \in Conns : rd[c] = "done" /\ disconnects[c] = 1
                        /\ SocketClosed[c] /\ wr[c] = "run"


\* ---------------------------------------------------------------- claims C11..C20
\* the user_disconnected notification of connection c
UserDisconnected(c) ==
  Message("user_disconnected", "left the chat", User[c], "", "", {})

\* the step delivers m to connection d the way the hub delivers: m is put at
\* the end of d's queue, or the queue is full and d is torn down instead (its
\* queue closed, d out of the registry)
Delivered(d, m) ==
  IF Len(Send[d]) < QueueCap
    THEN Send'[d] = Append(Send[d], m) /\ ~SendClosed'[d] /\ d \in Clients'
    ELSE Send'[d] = Send[d] /\ SendClosed'[d] /\ d \notin Clients'

\* C11: the hub step of an unregister request for a connection c of Clients
\* closes c's queue, removes c from Clients, its username from UserClients and
\* c from every room (a room c leaves empty is deleted), and delivers one
\* user_disconnected to every remaining connection and nothing to c.
C11_UnregisterTearsDown ==
  [][\A c \in Conns :
       (Unregister(c) /\ c \in Clients)
         => /\ panic' = NoPanic
            /\ SendClosed'[c] /\ Send'[c] = Send[c]
            /\ c \notin Clients'
            /\ User[c] \notin DOMAIN UserClients'
            /\ \A r \in DOMAIN Rooms' : c \notin Rooms'[r]
            /\ \A r \in DOMAIN Rooms : Rooms[r] = {c} => r \notin DOMAIN Rooms'
            /\ \A d \in Clients \ {c} : Delivered(d, UserDisconnected(c))]_vars

\* C12: when a connection d registers under a username that UserClients maps
\* to an earlier connection, then once the register step has completed the
\* username is online, exactly one connection of Clients carries it,
\* UserClients maps it to d, and the earlier connection has its queue closed
\* and is a member of no room.
C12_SecondLoginReplacesFirst ==
  [][\A d \in Conns, u \in Users :
       (Register(d, u) /\ u \in DOMAIN UserClients /\ panic' = NoPanic)
         => /\ u \in GetOnlineUsers'
            /\ Cardinality({x \in Clients' : User'[x] = u}) = 1
            /\ UserClients'[u] = d
            /\ SendClosed'[UserClients[u]]
            /\ \A r \in DOMAIN Rooms' : UserClients[u] \notin Rooms'[r]]_vars


\* the hub step handles the room-mode dispatch that inbound loop c submitted,
\* for a room of the room map that has members
RoomDispatch(c) ==
  /\ Broadcast(c)
  /\ rdOut[c].MessageType = "broadcast_room"
  /\ rdOut[c].RoomID \in DOMAIN Rooms
  /\ Rooms[rdOut[c].RoomID] # {}

\* C13: the hub step of a room-mode dispatch for an existing, non-empty room R
\* that excludes username U delivers the notification to exactly the members
\* of R whose username is not U; the queue of U's connection and the queues of
\* the connections outside R are left as they were.
C13_RoomDispatchToOtherMembers ==
  [][\A c \in Conns :
       (RoomDispatch(c) /\ rdOut[c].ExcludeUser # "")
         => \A d \in Conns :
              IF d \in Rooms[rdOut[c].RoomID] /\ User[d] # rdOut[c].ExcludeUser
                THEN Delivered(d, rdOut[c].Message)
                ELSE Send'[d] = Send[d]]_vars

\* C14: a private_message is only ever in the queue of a connection of its
\* recipient or of its sender; the hub step that handles it enqueues it on no
\* connection but the one UserClients holds for the recipient, and the echo
\* step of the sender's inbound loop touches no queue but the sender's.
C14_PrivateOnlyToRecipientAndSender ==
  /\ [](\A d \in Conns : \A i \in 1..Len(Send[d]) :
          Send[d][i].Type = "private_message"
            => User[d] \in {Send[d][i].RecipientUsername, Send[d][i].Username})
  /\ [][\A c \in Conns :
          /\ (Broadcast(c) /\ rdOut[c].MessageType = "private_message")
               => \A d \in Conns :
                    (Len(Send'[d]) > Len(Send[d])
                       /\ Send'[d][Len(Send'[d])] = rdOut[c].Message)
                      => /\ rdOut[c].TargetUsername \in DOMAIN UserClients
                         /\ d = UserClients[rdOut[c].TargetUsername]
          /\ PrivateEcho(c) => \A d \in Conns \ {c} : Send'[d] = Send[d]]_vars

\* three connections are registered; the private message of one of them was
\* delivered to its recipient and echoed to its sender, and the third
\* connection's queue holds no private message
C14_PrivateDeliveredAndEchoed ==
  \E sender, recipient, third \in Clients :
    /\ sender # recipient /\ third \notin {sender, recipient}
    /\ \E i \in 1..Len(Send[recipient]) :
         /\ Send[recipient][i].Type = "private_message"
         /\ Send[recipient][i].Username = User[sender]
         /\ Send[recipient][i].RecipientUsername = User[recipient]
    /\ \E i \in 1..Len(Send[sender]) :
         /\ Send[sender][i].Type = "private_message"
         /\ Send[sender][i].Username = User[sender]
    /\ \A i \in 1..Len(Send[third]) : Send[third][i].Type # "private_message"
    /\ rd[sender] = "idle"


\* the error notification sendPrivateMessage makes for an offline recipient
OfflineError(targetUsername) ==
  Message("error", "User " \o targetUsername \o " is not online", "System", "", "", {})

\* the hub step handles the private dispatch of inbound loop c, and the
\* recipient has no connection in UserClients
OfflineDispatch(c) ==
  /\ Broadcast(c)
  /\ rdOut[c].MessageType = "private_message"
  /\ rdOut[c].TargetUsername \notin DOMAIN UserClients

\* C15: the hub step of a private dispatch whose recipient is offline delivers
\* one error notification to the sending connection c and changes no other
\* queue and not the registry; when c is no longer registered the step changes
\* nothing at all.
C15_OfflineRecipientErrorToSender ==
  [][\A c \in Conns :
       OfflineDispatch(c)
         => /\ panic' = NoPanic
            /\ \A d \in Conns \ {c} :
                 Send'[d] = Send[d] /\ SendClosed'[d] = SendClosed[d]
            /\ IF c \in Clients
                 THEN /\ Delivered(c, OfflineError(rdOut[c].TargetUsername))
                      /\ Len(Send[c]) < QueueCap
                           => UNCHANGED <<Clients, UserClients, Rooms>>
                 ELSE UNCHANGED <<Send, SendClosed, Clients, UserClients, Rooms>>]_vars


\* C16: the hub step of the dispatch of a chat_message that connection c, a
\* member of the named room, sent with content delivers the message to c
\* itself and to every other member of the room, and changes the queue of no
\* connection outside the room.
C16_ChatToRoomIncludingSender ==
  [][\A c \in Conns :
       (RoomDispatch(c) /\ rdOut[c].Message.Type = "chat_message"
          /\ c \in Rooms[rdOut[c].RoomID])
         => /\ Delivered(c, rdOut[c].Message)
            /\ \A d \in Conns \ {c} :
                 IF d \in Rooms[rdOut[c].RoomID]
                   THEN Delivered(d, rdOut[c].Message)
                   ELSE Send'[d] = Send[d]]_vars


\* the step in which inbound loop c answers a frame with SendError(errorMsg)
\* and nothing else: the error is enqueued on c, c goes back to reading, no
\* dispatch is submitted to the hub, no other queue and no part of the
\* registry or of the memberships changes, and c stays registered with its
\* queue open
LocalErrorOnly(c, errorMsg) ==
  /\ panic' = NoPanic
  /\ Send' = [Send EXCEPT ![c] = Append(@, ErrorMessage(errorMsg))]
  /\ rd'[c] = "idle"
  /\ UNCHANGED <<rdOut, Clients, UserClients, Rooms, ClientRooms, SendClosed,
                 SocketClosed>>
  /\ c \in Clients' /\ ~SendClosed'[c] /\ ~SocketClosed'[c]

\* C17: a frame with an unrecognized type, received by a registered
\* connection whose queue has room, gets exactly one error notification
\* enqueued on the sender and nothing else: no dispatch, registry unchanged,
\* the sender still registered with its queue open.
C17_UnknownTypeLocalError ==
  [][\A c \in Conns :
       (RecvInvalid(c, UnknownType) /\ c \in Clients /\ Len(Send[c]) < QueueCap)
         => LocalErrorOnly(c, UnknownType)]_vars


\* C19: a frame that does not parse or lacks a required field (chat_message
\* without content, join_room or leave_room without room id, private_message
\* without recipient or without content), received by a registered connection
\* whose queue has room, produces only the local error notification: no
\* dispatch reaches the hub, no membership changes, and the connection stays
\* open.
C19_MalformedLocalError ==
  [][\A c \in Conns, errorMsg \in Malformed :
       (RecvInvalid(c, errorMsg) /\ c \in Clients /\ Len(Send[c]) < QueueCap)
         => LocalErrorOnly(c, errorMsg)]_vars


\* C18: when a leave has run its membership statements (client.go:187-191),
\* the room it left has members or is not in the room map, so the room the
\* only member left is gone; and the hub step of a room-mode dispatch for a
\* room id that the room map does not hold enqueues nothing and leaves
\* Clients, UserClients and Rooms as they were.
C18_LeftRoomGoneDispatchNoOp ==
  /\ [][\A c \in Conns :
          (rd[c] \in {"l_len", "l_prune"} /\ rd'[c] = "l_own")
            => (rdRoom[c] \in DOMAIN Rooms' => Rooms'[rdRoom[c]] # {})]_vars
  /\ [][\A c \in Conns :
          (Broadcast(c) /\ rdOut[c].MessageType = "broadcast_room"
             /\ rdOut[c].RoomID # "" /\ rdOut[c].RoomID \notin DOMAIN Rooms)
            => UNCHANGED <<Send, SendClosed, Clients, UserClients, Rooms, panic>>]_vars

\* the only registered connection joined "general", was its only member and
\* left it again (its queue holds the room_joined and the room_left reply, and
\* no chat_message between them), the room is gone, and the last dispatch the
\* hub has handled, after the user_joined of the join, is the connection's
\* chat_message for "general"
C18_DispatchAfterLastMemberLeft ==
  \E m \in Clients :
    /\ Clients = {m} /\ panic = NoPanic
    /\ "general" \notin DOMAIN Rooms /\ ClientRooms[m] = {}
    /\ Send[m] = <<Message("room_joined", "Successfully joined room", "System",
                           "general", "", {}),
                   Message("room_left", "Successfully left room", "System",
                           "general", "", {})>>
    /\ rd[m] = "idle"
    /\ lastDispatch.MessageType = "broadcast_room"
    /\ lastDispatch.RoomID = "general"
    /\ lastDispatch.Message.Type = "chat_message"
    /\ lastDispatch.Message.Username = User[m]

\* C20: the online-users view is the domain of UserClients; at every point
\* between hub steps GetOnlineUsers is the set of the usernames of the
\* connections of Clients, UserClients maps each of them to its connection,
\* and IsUserOnline(u) holds exactly when a connection of Clients carries u.
C20_OnlineUsersAreLive ==
  /\ GetOnlineUsers = {User[c] : c \in Clients}
  /\ \A c \in Clients : UserClients[User[c]] = c
  /\ \A i \in 1..Len(UserSeq) :
       IsUserOnline(UserSeq[i]) <=> \E c \in Clients : User[c] = UserSeq[i]

\* a register, an unregister and an eviction have completed: c was
\* unregistered by unregisterClient, d was evicted by cleanupClient (no
\* user_disconnected was broadcast for it), and e is the one connection that
\* is registered
C20_AfterUnregisterAndEviction ==
  \E c, d, e \in Conns :
    /\ panic = NoPanic
    /\ rd[c] = "done" /\ disconnects[c] = 1 /\ c \notin Clients
    /\ d \notin Clients /\ rd[d] # "off" /\ SendClosed[d] /\ disconnects[d] = 0
    /\ e \in Clients /\ e \notin {c, d}
    /\ GetOnlineUsers = {User[e]} /\ IsUserOnline(User[e])


\* ---------------------------------------------------------------- claims C21..C30
\* the step is a step of the hub command loop: Start receives a register, an
\* unregister or a dispatch command and runs its handler
HubStep ==
  \E c \in Conns :
    \/ \E u \in Users : Register(c, u)
    \/ Unregister(c)
    \/ Broadcast(c)

\* C21: the hub loop is the only mutator of the connection set, the username
\* map and the room map: every step that changes Clients, UserClients or Rooms
\* is a step of the hub command loop, and no step of an inbound or outbound
\* loop writes them.
C21_HubOnlyMutator ==
  [][<<Clients, UserClients, Rooms>>' # <<Clients, UserClients, Rooms>>
       => HubStep]_vars


\* the panics of an inbound loop: the deferred c.Close of Read still runs, and
\* sends the unregister request, before the process ends
ReadPanics ==
  {"read: send on closed channel", "read: close of closed channel",
   "read: assignment to entry in nil map"}

\* C22: for every connection, the end of either loop leads to the hub's
\* receiving the connection's unregister request (after the outbound loop has
\* returned and closed the socket the inbound loop fails its read and submits
\* it; an inbound loop that ends first submits it itself), and a connection
\* whose request the hub has received never submits another.
C22_OneUnregisterPerConnection ==
  /\ \A c \in Conns :
       (wr[c] = "done" \/ rd[c] = "unreg") ~> (rd[c] = "done" \/ panic \in ReadPanics)
  /\ [][\A c \in Conns : rd[c] = "done" => rd'[c] = "done"]_vars


\* the transport of connection c has failed: its inbound loop has left the
\* read loop, or its outbound loop has returned
TransportFailed(c) == rd[c] \in {"unreg", "done"} \/ wr[c] = "done"

\* connection c is torn down: in no part of the registry, its queue closed
TornDown(c) ==
  /\ c \notin Clients
  /\ \A u \in DOMAIN UserClients : UserClients[u] # c
  /\ \A r \in DOMAIN Rooms : c \notin Rooms[r]
  /\ SendClosed[c]

\* C23: under fair scheduling of the hub and the connection tasks, a registered
\* connection whose transport read or write fails (or whose read deadline
\* expires) is eventually absent from Clients, UserClients and every room,
\* with its outbound queue closed; and the failure is never retried: a loop
\* that has ended stays ended.
C23_FailedTransportTornDown ==
  /\ \A c \in Conns :
       (c \in Clients /\ TransportFailed(c)) ~> (TornDown(c) \/ panic \in ReadPanics)
  /\ [][\A c \in Conns :
          /\ rd[c] \in {"unreg", "done"} => rd'[c] \in {"unreg", "done"}
          /\ wr[c] = "done" => wr'[c] = "done"]_vars


\* the user_connected notification of username u
UserConnected(u) == Message("user_connected", "joined the chat", u, "", "", {})

\* the number of copies of message m in the queue q
Copies(q, m) == Cardinality({i \in 1..Len(q) : q[i] = m})

\* C24: the hub step of register(c) puts c in Clients and makes UserClients
\* map c's username to c, enqueues on c a welcome (system) notification and an
\* online_users snapshot, and enqueues one user_connected notification on
\* every other registered connection (one whose queue is full is torn down
\* instead) and none on c itself.
C24_RegisterWelcomesAndAnnounces ==
  [][\A c \in Conns, u \in Users :
       Register(c, u)
         => /\ panic' = NoPanic
            /\ c \in Clients'
            /\ u \in DOMAIN UserClients' /\ UserClients'[u] = c
            /\ Len(Send'[c]) = 2
            /\ Send'[c][1] = Message("system", "Welcome", "System", "", "", {})
            /\ Send'[c][2].Type = "online_users"
            /\ Send'[c][2].Data = GetOnlineUsers' \ {u}
            /\ Copies(Send'[c], UserConnected(u)) = 0
            /\ \A d \in Clients \ {c} :
                 User[d] # u
                   => IF d \in Clients'
                        THEN /\ Copies(Send'[d], UserConnected(u))
                                  = Copies(Send[d], UserConnected(u)) + 1
                             /\ ~SendClosed'[d]
                        ELSE Len(Send'[d]) = QueueCap /\ SendClosed'[d]]_vars


\* C25: the hub handles the register, unregister and dispatch commands one
\* at a time and in arrival order: a step handles at most one command, the
\* unregister or dispatch command it handles is the one that has waited
\* longest, and a register command, which arrives in the step that handles
\* it, is handled only when no earlier command is still waiting.
C25_CommandsInArrivalOrder ==
  [][/\ Len(arrivals') >= Len(arrivals) - 1
     /\ \A c \in Conns :
          /\ (Unregister(c) \/ Broadcast(c)) => Head(arrivals) = c
          /\ (\E u \in Users : Register(c, u)) => arrivals = <<>>]_vars


\* the dispatch b is delivered by broadcastToAll: an all-mode dispatch, or a
\* room-mode dispatch with an empty room id
ToAll(b) ==
  \/ b.MessageType = "broadcast_all"
  \/ b.MessageType = "broadcast_room" /\ b.RoomID = ""

\* C26: the hub step of an all-mode dispatch delivers the notification to
\* every registered connection whose username is not the excluded one and
\* changes no other queue, and the hub handles a room-mode dispatch with an
\* empty room id exactly as the all-mode dispatch with the same message and
\* excluded username.
C26_AllModeAndEmptyRoomId ==
  /\ [][\A c \in Conns :
          (Broadcast(c) /\ ToAll(rdOut[c]))
            => \A d \in Conns :
                 IF d \in Clients /\ User[d] # rdOut[c].ExcludeUser
                   THEN Delivered(d, rdOut[c].Message)
                   ELSE Send'[d] = Send[d]]_vars
  /\ [](\A c \in Conns :
          (rd[c] \in BroadcastPcs /\ rdOut[c].MessageType = "broadcast_room"
             /\ rdOut[c].RoomID = "")
            => \A ord \in Orders :
                 handleBroadcast(Hub, rdOut[c], ord)
                   = handleBroadcast(Hub, [rdOut[c] EXCEPT !.MessageType = "broadcast_all"],
                                     ord))


\* C27: a join_room with a room id makes the connection a member of the room
\* (when the membership statements are done the connection is in Rooms[room],
\* created if it was absent, and the room is in the connection's own set),
\* enqueues one room_joined on the joiner (a joiner whose queue is full is
\* torn down instead), and the hub step of its user_joined dispatch finds the
\* joiner a member and delivers the notification to every other member of the
\* room and to nobody else, the joiner included.
C27_JoinMakesMemberAndNotifies ==
  [][\A c \in Clients :
       /\ (JoinOwn(c) /\ rd'[c] = "j_reply")
            => InRoom(c, rdRoom[c])' /\ rdRoom[c] \in ClientRooms'[c]
       /\ JoinReply(c)
            => /\ panic' = NoPanic
               /\ Len(Send[c]) < QueueCap
                    => Send'[c] = Append(Send[c],
                                    Message("room_joined", "Successfully joined room",
                                            "System", rdRoom[c], "", {}))
       /\ (SendMessageClose(c) /\ rdNext[c] = "j_bcast") => TornDown(c)'
       /\ (Broadcast(c) /\ rd[c] = "j_bcast")
            => /\ InRoom(c, rdRoom[c])
               /\ rdOut[c].Message.Type = "user_joined"
               /\ \A d \in Conns :
                    IF InRoom(d, rdRoom[c]) /\ User[d] # User[c]
                      THEN Delivered(d, rdOut[c].Message)
                      ELSE Send'[d] = Send[d]]_vars


\* C28: a leave_room with a room id removes the connection from the room
\* (when the membership statements are done the connection is not in
\* Rooms[room], the room is not in its own set, and a room the leave emptied
\* is deleted), enqueues one room_left on the leaver (a leaver whose queue is
\* full is torn down instead), submits the user_left dispatch exactly when the
\* room still has a member, and the hub step of that dispatch delivers
\* user_left to every member of the room and to nobody else.
C28_LeaveRemovesAndNotifies ==
  [][\A c \in Clients :
       /\ (rd[c] \in {"l_len", "l_prune"} /\ rd'[c] = "l_own")
            => (rdRoom[c] \in DOMAIN Rooms' => Rooms'[rdRoom[c]] # {})
       /\ (LeaveOwn(c) /\ rd'[c] = "l_reply")
            => ~InRoom(c, rdRoom[c])' /\ rdRoom[c] \notin ClientRooms'[c]
       /\ LeaveReply(c)
            => /\ panic' = NoPanic
               /\ Len(Send[c]) < QueueCap
                    => Send'[c] = Append(Send[c],
                                    Message("room_left", "Successfully left room",
                                            "System", rdRoom[c], "", {}))
       /\ (SendMessageClose(c) /\ rdNext[c] = "l_notify") => TornDown(c)'
       /\ LeaveNotify(c)
            => /\ rd'[c] = "l_bcast" <=> \E d \in Conns : InRoom(d, rdRoom[c])
               /\ rd'[c] = "l_bcast" => rdOut'[c].Message.Type = "user_left"
       /\ (Broadcast(c) /\ rd[c] = "l_bcast")
            => \A d \in Conns :
                 IF InRoom(d, rdRoom[c]) /\ User[d] # User[c]
                   THEN Delivered(d, rdOut[c].Message)
                   ELSE Send'[d] = Send[d]]_vars


\* C29: for every private_message with recipient and content of a registered
\* connection, the hub step of the private dispatch lets the sender's inbound
\* loop go on to the echo whatever became of the delivery (recipient online,
\* offline or evicted), and the echo step enqueues exactly one copy of the
\* message on the sender's own queue, when it has room, and on no other.
C29_PrivateEchoToSender ==
  [][\A c \in Clients :
       /\ (Broadcast(c) /\ rd[c] = "p_bcast")
            => panic' = NoPanic /\ rd'[c] = "p_echo" /\ rdOut'[c] = rdOut[c]
       /\ PrivateEcho(c)
            => /\ panic' = NoPanic
               /\ rdOut[c].Message.Type = "private_message"
               /\ Len(Send[c]) < QueueCap
                    => Send'[c] = Append(Send[c], rdOut[c].Message)
               /\ \A d \in Conns \ {c} : Send'[d] = Send[d]
               /\ rd'[c] # "p_echo"]_vars


\* C30: a ping of a registered connection is answered by its inbound loop
\* alone: one pong is put at the end of the sender's own queue (when it has
\* room), no command is sent to the hub, and Clients, UserClients, Rooms and
\* the queue of every other connection are left as they were.
C30_PingAnsweredLocally ==
  [][\A c \in Clients :
       RecvPing(c)
         => /\ panic' = NoPanic
            /\ Len(Send[c]) < QueueCap
                 => Send'[c] = Append(Send[c], Message("pong", "", "System", "", "", {}))
            /\ \A d \in Conns \ {c} : Send'[d] = Send[d]
            /\ rd'[c] \notin HubSendPcs
            /\ UNCHANGED <<Clients, UserClients, Rooms, rdOut, arrivals>>]_vars


\* ---------------------------------------------------------------- claims C31..C39
\* C31: for every connection, frames are written on its socket by its outbound
\* loop (Client.Write) alone and read by its inbound loop (Client.Read) alone;
\* what the inbound loop and the hub produce for the connection goes to its
\* outbound queue: a step that is not a step of the connection's outbound loop
\* leaves the queue as it was or puts messages at its end.
C31_SingleWriterSingleReader ==
  /\ [](\A c \in Conns : frameIO[c] \subseteq {ReadsFrames, WritesFrames})
  /\ [][\A c \in Conns :
          (Send'[c] # Send[c] /\ ~WriteMessage(c) /\ ~WriteFail(c))
            => /\ Len(Send'[c]) > Len(Send[c])
               /\ SubSeq(Send'[c], 1, Len(Send[c])) = Send[c]]_vars

\* a duplicate login has made the hub close the socket of connection c, which
\* had read frames and whose outbound loop had written frames and is still
\* running with messages in the queue
C31_HubClosedSocketOfBusyConnection ==
  \E c \in Conns :
    /\ c \notin Clients /\ SocketClosed[c] /\ SendClosed[c]
    /\ wr[c] = "run" /\ Send[c] # <<>>
    /\ frameIO[c] = {ReadsFrames, WritesFrames}
    /\ \E d \in Clients : User[d] = User[c]


\* connection c was registered and has been removed from the registry (by
\* unregisterClient, by the eviction of a duplicate login or by cleanupClient)
Removed(c) == rd[c] # "off" /\ c \notin Clients

\* C32: the lifecycle of a connection is one-way: once it has been removed
\* from the registry no step puts it in Clients, makes UserClients map a
\* username to it or adds it to the member set of a room, and a closed
\* outbound queue is never open again.
C32_RemovedStaysRemoved ==
  [][\A c \in Conns :
       /\ Removed(c)
            => /\ c \notin Clients'
               /\ \A u \in DOMAIN UserClients' : UserClients'[u] # c
               /\ \A r \in RoomIDs : InRoom(c, r)' => InRoom(c, r)
       /\ SendClosed[c] => SendClosed'[c]]_vars


\* both loops of connection c have returned
LoopsExited(c) == rd[c] \in {"off", "done"} /\ wr[c] \in {"off", "done"}

\* C33: once shutdown has begun no connection is admitted; the shutdown step
\* closes the outbound queue of every registered connection; and when the
\* process ends, both loops of every connection have exited, each connection
\* with its queue closed or its transport closed.
C33_ShutdownClosesQueuesAndLoopsExit ==
  /\ [][server # "serving" => Clients' \subseteq Clients]_vars
  /\ [][(server = "serving" /\ server' = "shutdown")
          => \A c \in Clients : SendClosed'[c]]_vars
  /\ [](server = "exited"
          => \A c \in Conns :
               /\ LoopsExited(c)
               /\ rd[c] = "done" => SendClosed[c] \/ SocketClosed[c])


\* C34: every member of every room is a live connection: it is in the
\* connection set and its outbound queue is open.
C34_RoomMembersAreLive ==
  \A r \in RoomIDs : \A c \in Conns :
    InRoom(c, r) => c \in Clients /\ ~SendClosed[c]


\* C35: between hub steps UserClients and Clients describe the same
\* connections: UserClients[u] = c exactly when c is in Clients and the
\* username of c is u, and the two have the same size.
C35_UserMapMatchesConnectionSet ==
  /\ \A c \in Conns : \A i \in 1..Len(UserSeq) :
       (UserSeq[i] \in DOMAIN UserClients /\ UserClients[UserSeq[i]] = c)
         <=> (c \in Clients /\ User[c] = UserSeq[i])
  /\ Cardinality(DOMAIN UserClients) = Cardinality(Clients)

\* a dispatch to everyone evicted d in the middle of its loop because d's
\* queue was full (cleanupClient: queue closed, socket left alone, no
\* user_disconnected), and delivered the message to e
C35_EvictedInTheMiddleOfABroadcast ==
  \E d, e \in Conns :
    /\ panic = NoPanic
    /\ ToAll(lastDispatch)
    /\ d \notin Clients /\ rd[d] # "off" /\ SendClosed[d] /\ ~SocketClosed[d]
    /\ disconnects[d] = 0 /\ Len(Send[d]) = QueueCap
    /\ User[d] \notin DOMAIN UserClients
    /\ e \in Clients /\ Send[e] # <<>>
    /\ Send[e][Len(Send[e])] = lastDispatch.Message


\* what a step has put at the end of the queue of connection d
Enqueued(d) == SubSeq(Send'[d], Len(Send[d]) + 1, Len(Send'[d]))

\* C36: in the hub step of a duplicate login for username u, every other
\* connection on which the step enqueues both notifications has
\* user_disconnected for u enqueued before user_connected for u, and nothing
\* is enqueued on the evicted connection.
C36_DisconnectedBeforeConnected ==
  [][\A c \in Conns, u \in Users :
       (Register(c, u) /\ u \in DOMAIN UserClients)
         => /\ Send'[UserClients[u]] = Send[UserClients[u]]
            /\ \A d \in Conns \ {c, UserClients[u]} :
                 \A i, j \in 1..Len(Enqueued(d)) :
                   (/\ Enqueued(d)[i] = UserDisconnected(UserClients[u])
                    /\ Enqueued(d)[j] = UserConnected(u))
                     => i < j]_vars

\* after a duplicate login: the username's old connection c was evicted by
\* the hub, e is registered in its place, and a third connection d holds the
\* user_disconnected and, right after it, the user_connected of that username
C36_BothNotificationsDelivered ==
  \E c, d, e \in Conns :
    /\ c # e /\ d \notin {c, e} /\ User[c] = User[e] /\ User[d] # User[c]
    /\ c \notin Clients /\ SocketClosed[c] /\ disconnects[c] = 1
    /\ e \in Clients /\ d \in Clients
    /\ \E i \in 1..Len(Send[d]) - 1 :
         /\ Send[d][i] = UserDisconnected(c)
         /\ Send[d][i + 1] = UserConnected(User[e])


\* the notification m has been sent to Broadcast once, by one connection, and
\* the queue of connection d holds one copy of it
OneEmission(m, d) ==
  /\ Cardinality({<<c, k>> \in Conns \X (1..MaxEvents) :
                    k <= Len(emitted[c]) /\ emitted[c][k] = m}) = 1
  /\ Copies(Send[d], m) = 1

\* C37: the hub keeps the order of each sender: when connection a has sent
\* the notification d1 to Broadcast and later d2, a queue that holds both
\* holds d1 ahead of d2.
C37_PerSenderOrder ==
  \A a, d \in Conns :
    \A k, l \in 1..Len(emitted[a]) : \A i, j \in 1..Len(Send[d]) :
      (/\ k < l
       /\ Send[d][i] = emitted[a][k] /\ Send[d][j] = emitted[a][l]
       /\ OneEmission(emitted[a][k], d) /\ OneEmission(emitted[a][l], d))
        => i < j

\* connection a has emitted two different dispatches, the hub has handled
\* both, and the queue of another connection d holds the two
C37_TwoDispatchesOfOneSenderQueued ==
  \E a, d \in Conns :
    /\ a # d /\ panic = NoPanic /\ rd[a] = "idle"
    /\ Len(emitted[a]) = 2 /\ emitted[a][1] # emitted[a][2]
    /\ OneEmission(emitted[a][1], d) /\ OneEmission(emitted[a][2], d)
    /\ d \in Clients


C39_HubNeverBlocks ==
  /\ [][HubStep => panic' = NoPanic]_vars
  /\ \A c \in Conns :
       rd[c] \in HubSendPcs ~> (rd[c] \notin HubSendPcs \/ panic \in ReadPanics)

====
